---------------------------- MODULE Spec2Model ----------------------------
(***************************************************************************)
(* The citation-graph crawler (client/src/main.rs, client/src/             *)
(* semantic_scholar.rs): seeding, the rounds of select / fetch /           *)
(* accumulate / commit, the ten pruning passes and the DOT export.         *)
(***************************************************************************)
EXTENDS Integers, Sequences, FiniteSets, TLC

\* ------------------------------------------------------------------ bounds
MaxDepth == 2          \* largest --max-depth explored
MaxCitations == 3      \* reference stubs the upstream's papers hold in total
MaxFetchedRefs == 2    \* reference stubs in the papers handed to Accumulate alone
MaxSignal == 2         \* largest citation_count of a store handed to Accumulate alone
MaxStrLen == 4         \* longest title handed to the exporter alone
MaxBatchInput == 1001  \* longest id list handed to get_paper_batch alone
MaxConn == 24          \* largest connectivity explored, in quarters (6.0)
MaxRound == 5          \* largest round whose threshold is computed alone
MaxSubBatches == 2     \* most sub-batches of a fetch whose tasks are followed one by one
MaxInbound == 2        \* inbound requests the proxy handles at a time
MaxClock == 3          \* rate-limit periods the proxy is followed for

\* ------------------------------------------------------- program constants
MAX_PAPERS_PER_BATCH_CALL == 500
PrunePasses == 10
RATE_LIMIT_COUNT == 1
max_tries == 10

\* --------------------------------------------------------------- the data
Ids == {"P1", "R1", "R2"}
NoId == "none"                      \* Option::None of ProtoPaper.id / url
PlainTitle == <<"a">>
QuotedTitle == <<"\"", "\\">>       \* a title holding a quote and a backslash

\* ProtoPaper { id: Option<String>, title, url: Option<String> }
ProtoPaper(id, title, url) == [id |-> id, title |-> title, url |-> url]

\* Paper { title, url, id, references: Vec<ProtoPaper> }
Paper(id, refs) == [id |-> id, title |-> PlainTitle, url |-> "u", references |-> refs]

\* The JSON null the upstream answers for an identifier it cannot resolve.
Null == [id |-> NoId, title |-> <<>>, url |-> NoId, references |-> <<>>]

\* impl From<Paper> for ProtoPaper
FromPaper(paper) == ProtoPaper(paper.id, paper.title, paper.url)

\* The reference stubs the upstream may return: one per id as the paper itself
\* would convert, one stub naming R1 under another title and without url, and
\* one stub without id.
StubPool ==
    {ProtoPaper(i, PlainTitle, "u") : i \in Ids}
        \cup {ProtoPaper("R1", QuotedTitle, NoId), ProtoPaper(NoId, PlainTitle, NoId)}

\* the reference lists of at most `longest` stubs
RefLists(longest) == UNION {[1..n -> StubPool] : n \in 0..longest}

SeedLists == {<<>>, <<"P1">>}

\* connectivity in quarters: 1.0, 2.0, 3.25
Connectivities == {4, 8, 13}

VARIABLES
    pc,                     \* where main is
    paper_ids,              \* the seed identifiers (main.rs:86)
    connectivity,           \* cli.connectivity, in quarters
    max_depth,              \* cli.max_depth
    world,                  \* what the upstream has answered per identifier
    staging,                \* Staging: id -> StagingData
    paper_list,             \* committed nodes
    reference_list,         \* committed edges
    depth,                  \* the loop variable of the crawl loop
    minimum_citations,
    staged_paper_list,
    staged_reference_list,
    batched_papers,
    new_papers,
    selections,             \* history: remove_staged of every round so far
    pre_accumulate,         \* history: staging as it was before line 146
    pass,                   \* pruning passes done
    prev_graph,             \* history: the graph before the last pruning pass
    output,                 \* the node lines printed
    requests,               \* the sub-batches get_paper_batch has spawned
    tasks,                  \* the tasks of its two JoinSets, one per sub-batch
    papers,                 \* the Vec<Paper> it is collecting
    clock,                  \* the proxy's time, in rate-limit periods
    limiter,                \* the proxy's RateLimiter
    handlers,               \* the proxy's paper_batch handlers in progress
    upstream                \* what the upstream has received from the proxy

vars ==
    <<pc, paper_ids, connectivity, max_depth, world, staging, paper_list,
      reference_list, depth, minimum_citations, staged_paper_list,
      staged_reference_list, batched_papers, new_papers, selections,
      pre_accumulate, pass, prev_graph, output, requests, tasks, papers,
      clock, limiter, handlers, upstream>>

proxy_vars == <<clock, limiter, handlers, upstream>>

\* ---------------------------------------------------------------- helpers
Range(s) == {s[i] : i \in 1..Len(s)}

Max(a, b) == IF a >= b THEN a ELSE b

Min(a, b) == IF a <= b THEN a ELSE b

RECURSIVE Pow(_, _)
Pow(b, e) == IF e = 0 THEN 1 ELSE b * Pow(b, e - 1)

RECURSIVE Concat(_)
Concat(ss) == IF ss = <<>> THEN <<>> ELSE Head(ss) \o Concat(Tail(ss))

Permutations_(S) ==
    {s \in [1..Cardinality(S) -> S] : \A i, j \in 1..Cardinality(S) : i # j => s[i] # s[j]}

EmptyMap == [x \in {} |-> Null]

EmptyGraph == [nodes |-> {}, edges |-> {}]

\* --------------------------------------------------------- the threshold
\* floor(c^depth) in exact arithmetic, for c = c4 / 4.
FloorPower(c4, r) == Pow(c4, r) \div Pow(4, r)

\* The (connectivity, depth) pairs, connectivity in quarters up to 6.25 and
\* depth up to 6, at which (depth as f64 * c.ln()).exp() evaluated in IEEE-754
\* binary64 lands just below the integer c^depth (2.0_f64.ln() * 3.0 rounds
\* to a value whose exp is 7.999999999999998); everywhere else in that range
\* the floor of the binary64 value is the floor of the exact power.
RoundsBelow ==
    {<<8, 3>>, <<8, 4>>, <<8, 6>>, <<16, 2>>, <<16, 3>>, <<16, 4>>, <<16, 6>>,
     <<20, 1>>, <<20, 2>>, <<20, 3>>, <<20, 4>>, <<20, 5>>, <<20, 6>>,
     <<24, 4>>, <<24, 5>>}

\* a threshold that falls back to 1 after round 1
MinimumCitationsFalling(c4, d) == IF d = 1 THEN FloorPower(c4, 1) ELSE 1

\* (depth as f64 * cli.connectivity.ln()).exp().floor() as usize
MinimumCitations(c4, d) ==
    IF <<c4, d>> \in RoundsBelow THEN FloorPower(c4, d) - 1 ELSE FloorPower(c4, d)

\* ------------------------------------------------------- get_paper_batch
\* the number of iterations of the spawning loop
NumBatches(n) == Max(n \div MAX_PAPERS_PER_BATCH_CALL, 1)

LowIndex(i) == i * MAX_PAPERS_PER_BATCH_CALL

HighIndex(i, n) == Min((1 + i) * MAX_PAPERS_PER_BATCH_CALL, n)

\* paper_ids[low_index..high_index] of iteration i (0-based)
SubBatch(ids, i) == SubSeq(ids, LowIndex(i) + 1, HighIndex(i, Len(ids)))

\* a spawning loop that is entered on an empty list too
RequestsUnguarded(ids) == [i \in 1..NumBatches(Len(ids)) |-> SubBatch(ids, i - 1)]

\* the requests of one call: none on an empty list (lines 154-157), else the
\* sub-batches of the spawning loop (lines 163-186)
Requests(ids) ==
    IF ids = <<>> THEN <<>>
    ELSE [i \in 1..NumBatches(Len(ids)) |-> SubBatch(ids, i - 1)]

\* every identifier that is put in some request, in spawning order
SentIds(ids) == Concat(Requests(ids))

NotNull(p) == p # Null

\* Vec<Option<Paper>> of the answers, flattened
Flatten(w, ids) == SelectSeq([i \in 1..Len(ids) |-> w[ids[i]]], NotNull)

GetPaperBatch(w, ids) == Flatten(w, SentIds(ids))

\* the number of reference stubs the upstream has handed out so far
RECURSIVE Citations(_, _)
Citations(w, ids) ==
    IF ids = {} THEN 0
    ELSE LET id == CHOOSE x \in ids : TRUE
         IN  Len(w[id].references) + Citations(w, ids \ {id})

\* The ways the upstream can answer the identifiers `fresh` it has not been
\* asked before: each resolves to null or to a paper with a reference list.
RECURSIVE Extensions(_, _, _)
Extensions(w, fresh, budget) ==
    IF fresh = {} THEN {w}
    ELSE LET id == CHOOSE x \in fresh : TRUE
             with(paper) == [k \in DOMAIN w \cup {id} |-> IF k = id THEN paper ELSE w[k]]
         IN  UNION {Extensions(with(paper), fresh \ {id}, budget - Len(paper.references)) :
                        paper \in {Null} \cup {Paper(id, refs) : refs \in RefLists(budget)}}

\* w2 is w with the identifiers of the request `ids` answered
Answered(w, ids, w2) ==
    w2 \in Extensions(w, Range(SentIds(ids)) \ DOMAIN w,
                      MaxCitations - Citations(w, DOMAIN w))

\* ---------------------------------------------------------------- staging
\* an extend whose insert leaves the citation count at 1
RECURSIVE StagingExtendReset(_, _)
StagingExtendReset(st, records) ==
    IF records = <<>> THEN st
    ELSE LET paper == Head(records)
             inserted == [k \in DOMAIN st \cup {paper.id} |->
                            IF k = paper.id THEN [citation_count |-> 1, paper |-> paper]
                            ELSE st[k]]
         IN  StagingExtendReset(inserted, Tail(records))

\* impl Extend<Paper> for Staging
RECURSIVE StagingExtend(_, _)
StagingExtend(st, records) ==
    IF records = <<>> THEN st
    ELSE LET paper == Head(records)
             id == paper.id
             count == IF id \in DOMAIN st THEN Max(1, st[id].citation_count) ELSE 1
             inserted == [k \in DOMAIN st \cup {id} |->
                            IF k = id THEN [citation_count |-> count, paper |-> paper]
                            ELSE st[k]]
         IN  StagingExtend(inserted, Tail(records))

\* a seeding that commits no node
from_stagingNone(st) == {}

from_staging(st) == {FromPaper(st[k].paper) : k \in DOMAIN st}

HasId(stub) == stub.id # NoId

\* paper.references() of the papers, one after the other
ReferenceIncrements(records) == Concat([i \in 1..Len(records) |-> records[i].references])

\* one increment per id that is named, however often
IncrementDistinct(st, refs) ==
    [k \in DOMAIN st |->
        IF \E i \in 1..Len(refs) : refs[i].id = k
        THEN [st[k] EXCEPT !.citation_count = @ + 1]
        ELSE st[k]]

\* an increment loop that ends at the first reference without an id
RECURSIVE IncrementUntilIdless(_, _)
IncrementUntilIdless(st, refs) ==
    IF refs = <<>> THEN st
    ELSE LET ref_id == Head(refs).id
         IN  IF ref_id = NoId THEN st
             ELSE IncrementUntilIdless(
                      IF ref_id \in DOMAIN st
                      THEN [st EXCEPT ![ref_id].citation_count = @ + 1]
                      ELSE st,
                      Tail(refs))

\* the loop of lines 147-157: one increment per reference that names a live entry
RECURSIVE Increment(_, _)
Increment(st, refs) ==
    IF refs = <<>> THEN st
    ELSE LET ref_id == Head(refs).id
         IN  Increment(
                 IF ref_id # NoId /\ ref_id \in DOMAIN st
                 THEN [st EXCEPT ![ref_id].citation_count = @ + 1]
                 ELSE st,
                 Tail(refs))

\* a selection that wants more than the threshold
SelectedAbove(st, minimum) == {id \in DOMAIN st : st[id].citation_count > minimum}

\* the entries the loop of lines 104-136 does not skip
Selected(st, minimum) == {id \in DOMAIN st : ~(st[id].citation_count < minimum)}

StagedReferences(st, selected) ==
    UNION {{[referencer |-> id, referencee |-> r.id] :
                r \in {s \in Range(st[id].paper.references) : HasId(s)}} : id \in selected}

\* a commit that also makes a node of every selected entry itself
StagedPapersAndSelf(st, selected) ==
    UNION {{s \in Range(st[id].paper.references) : HasId(s)} \cup {FromPaper(st[id].paper)} :
               id \in selected}

\* a commit of every reference stub, with or without id
StagedPapersUnfiltered(st, selected) ==
    UNION {Range(st[id].paper.references) : id \in selected}

StagedPapers(st, selected) ==
    UNION {{s \in Range(st[id].paper.references) : HasId(s)} : id \in selected}

IdsOf(stubs) == [i \in 1..Len(stubs) |-> stubs[i].id]

\* batched_papers, the selected entries visited in the order `order`
Batched(st, order) ==
    Concat([i \in 1..Len(order) |->
                IdsOf(SelectSeq(st[order[i]].paper.references, HasId))])

\* ---------------------------------------------------------------- pruning
\* Some(s) == optional id
IdIs(opt, s) == opt # NoId /\ opt = s

Incoming(edges, paper) == Cardinality({e \in edges : IdIs(paper.id, e.referencee)})

Outgoing(edges, paper) == Cardinality({e \in edges : IdIs(paper.id, e.referencer)})

\* a degree rule that exempts the nodes without id
RetainPapersSparingNoId(nodes, edges) ==
    {p \in nodes : p.id = NoId \/ ~(Incoming(edges, p) <= 1 /\ Outgoing(edges, p) <= 1)}

\* a node set rebuilt from the endpoints of the edges
RetainPapersFromEdges(nodes, edges) ==
    {ProtoPaper(id, PlainTitle, "u") :
        id \in {i \in Ids :
                   ~(Cardinality({e \in edges : e.referencee = i}) <= 1
                     /\ Cardinality({e \in edges : e.referencer = i}) <= 1)}}

\* a degree rule that spares the nodes of degree one
RetainPapersBelowOne(nodes, edges) ==
    {p \in nodes : ~(Incoming(edges, p) < 1 /\ Outgoing(edges, p) < 1)}

\* paper_list.retain(..), lines 164-175
RetainPapers(nodes, edges) ==
    {p \in nodes : ~(Incoming(edges, p) <= 1 /\ Outgoing(edges, p) <= 1)}

\* an edge rule that is content with one surviving endpoint
RetainReferencesEitherEnd(nodes, edges) ==
    {e \in edges : \/ \E p \in nodes : IdIs(p.id, e.referencer)
                   \/ \E p \in nodes : IdIs(p.id, e.referencee)}

\* reference_list.retain(..), lines 176-183
RetainReferences(nodes, edges) ==
    {e \in edges : /\ \E p \in nodes : IdIs(p.id, e.referencer)
                   /\ \E p \in nodes : IdIs(p.id, e.referencee)}

\* ----------------------------------------------------------------- escape
RECURSIVE Replace(_, _, _)
Replace(s, from, to) ==
    IF s = <<>> THEN <<>>
    ELSE (IF Head(s) = from THEN to ELSE <<Head(s)>>) \o Replace(Tail(s), from, to)

\* the quotes escaped first, then every backslash doubled
escapeQuoteFirst(s) == Replace(Replace(s, "\"", <<"\\", "\"">>), "\\", <<"\\", "\\">>)

\* s.replace('\\', "\\\\").replace('\"', "\\\"")
escape(s) == Replace(Replace(s, "\\", <<"\\", "\\">>), "\"", <<"\\", "\"">>)

\* -------------------------------------------------------------- the proxy
Handlers == 1..MaxInbound

\* rate-limiter main.rs:122-131: the limiter starts without a token
\* (initial(0)) and no inbound request has arrived
ProxyIdle ==
    /\ clock = 0
    /\ limiter = [balance |-> 0, acquired |-> 0]
    /\ handlers = [h \in Handlers |->
                       [pc |-> "absent", tries |-> 0, result |-> 0,
                        sent |-> 0, outcome |-> "none", status |-> 0]]
    /\ upstream = [sent |-> 0]

\* ------------------------------------------------------------ the crawler
Idle ==
    /\ staging = EmptyMap
    /\ paper_list = {}
    /\ reference_list = {}
    /\ depth = 0
    /\ minimum_citations = 0
    /\ staged_paper_list = {}
    /\ staged_reference_list = {}
    /\ batched_papers = <<>>
    /\ new_papers = <<>>
    /\ selections = <<>>
    /\ pre_accumulate = EmptyMap
    /\ pass = 0
    /\ prev_graph = EmptyGraph
    /\ output = {}
    /\ requests = <<>>
    /\ tasks = <<>>
    /\ papers = <<>>
    /\ ProxyIdle

Init ==
    /\ pc = "seed"
    /\ paper_ids \in SeedLists
    /\ connectivity \in Connectivities
    /\ max_depth \in 0..MaxDepth
    /\ world = EmptyMap
    /\ Idle

\* where the for loop over depth goes when its body, or the seeding, is done
LoopHead(d) == IF d < max_depth THEN "select" ELSE "prune"

\* lines 89-93: the one request before the loop, and the first committed nodes
SeedStep ==
    /\ pc = "seed"
    /\ \/ /\ Answered(world, paper_ids, world')
          /\ staging' = StagingExtend(staging, GetPaperBatch(world', paper_ids))
          /\ paper_list' = from_staging(staging')
          /\ pc' = LoopHead(0)
       \/ /\ paper_ids # <<>>
          /\ pc' = "error"
          /\ UNCHANGED <<world, staging, paper_list>>
    /\ requests' = Requests(paper_ids)
    /\ UNCHANGED <<proxy_vars, tasks, papers,
                   paper_ids, connectivity, max_depth, reference_list, depth,
                   minimum_citations, staged_paper_list, staged_reference_list,
                   batched_papers, new_papers, selections, pre_accumulate, pass,
                   prev_graph, output>>

\* lines 98-139: the threshold, the selection and the removal
SelectStep ==
    /\ pc = "select"
    /\ minimum_citations' = MinimumCitations(connectivity, depth)
    /\ LET selected == Selected(staging, minimum_citations')
       IN  /\ staged_reference_list' = StagedReferences(staging, selected)
           /\ staged_paper_list' = StagedPapers(staging, selected)
           /\ \E order \in Permutations_(selected) :
                  batched_papers' = Batched(staging, order)
           /\ selections' = Append(selections, selected)
           /\ staging' = [id \in DOMAIN staging \ selected |-> staging[id]]
    /\ pc' = "fetch"
    /\ UNCHANGED <<proxy_vars, tasks, papers, requests,
                   paper_ids, connectivity, max_depth, world, paper_list,
                   reference_list, depth, new_papers, pre_accumulate, pass,
                   prev_graph, output>>

\* a fetch whose failure commits what the round has staged before giving up
FetchStepCommitting ==
    /\ pc = "fetch"
    /\ \/ /\ Answered(world, batched_papers, world')
          /\ new_papers' = GetPaperBatch(world', batched_papers)
          /\ pc' = "accumulate"
          /\ UNCHANGED <<paper_list, reference_list>>
       \/ /\ batched_papers # <<>>
          /\ pc' = "error"
          /\ reference_list' = reference_list \cup staged_reference_list
          /\ paper_list' = paper_list \cup staged_paper_list
          /\ UNCHANGED <<world, new_papers>>
    /\ requests' = Requests(batched_papers)
    /\ UNCHANGED <<proxy_vars, tasks, papers,
                   paper_ids, connectivity, max_depth, staging, depth,
                   minimum_citations, staged_paper_list, staged_reference_list,
                   batched_papers, selections, pre_accumulate, pass, prev_graph,
                   output>>

\* line 140: api.get_paper_batch(batched_papers).await?
FetchStep ==
    /\ pc = "fetch"
    /\ \/ /\ Answered(world, batched_papers, world')
          /\ new_papers' = GetPaperBatch(world', batched_papers)
          /\ pc' = "accumulate"
       \/ /\ batched_papers # <<>>
          /\ pc' = "error"
          /\ UNCHANGED <<world, new_papers>>
    /\ requests' = Requests(batched_papers)
    /\ UNCHANGED <<proxy_vars, tasks, papers,
                   paper_ids, connectivity, max_depth, staging, paper_list,
                   reference_list, depth, minimum_citations, staged_paper_list,
                   staged_reference_list, batched_papers, selections,
                   pre_accumulate, pass, prev_graph, output>>

\* lines 141-157: the new papers are staged and the references counted
AccumulateStep ==
    /\ pc = "accumulate"
    /\ pre_accumulate' = staging
    /\ staging' = Increment(StagingExtend(staging, new_papers),
                            ReferenceIncrements(new_papers))
    /\ pc' = "commit"
    /\ UNCHANGED <<proxy_vars, tasks, papers, requests,
                   paper_ids, connectivity, max_depth, world, paper_list,
                   reference_list, depth, minimum_citations, staged_paper_list,
                   staged_reference_list, batched_papers, new_papers, selections,
                   pass, prev_graph, output>>

\* a commit that keeps the round's staged sets only
CommitStepReplacing ==
    /\ pc = "commit"
    /\ reference_list' = staged_reference_list
    /\ paper_list' = staged_paper_list
    /\ depth' = depth + 1
    /\ pc' = LoopHead(depth + 1)
    /\ UNCHANGED <<proxy_vars, tasks, papers, requests,
                   paper_ids, connectivity, max_depth, world, staging,
                   minimum_citations, staged_paper_list, staged_reference_list,
                   batched_papers, new_papers, selections, pre_accumulate, pass,
                   prev_graph, output>>

\* lines 158-159, and the loop's step
CommitStep ==
    /\ pc = "commit"
    /\ reference_list' = reference_list \cup staged_reference_list
    /\ paper_list' = paper_list \cup staged_paper_list
    /\ depth' = depth + 1
    /\ pc' = LoopHead(depth + 1)
    /\ UNCHANGED <<proxy_vars, tasks, papers, requests,
                   paper_ids, connectivity, max_depth, world, staging,
                   minimum_citations, staged_paper_list, staged_reference_list,
                   batched_papers, new_papers, selections, pre_accumulate, pass,
                   prev_graph, output>>

\* a pass whose degree bound is the number of passes done
PruneStepByPass ==
    /\ pc = "prune"
    /\ prev_graph' = [nodes |-> paper_list, edges |-> reference_list]
    /\ paper_list' = {p \in paper_list : ~(Incoming(reference_list, p) <= pass
                                           /\ Outgoing(reference_list, p) <= pass)}
    /\ reference_list' = RetainReferences(paper_list', reference_list)
    /\ pass' = pass + 1
    /\ pc' = IF pass + 1 < PrunePasses THEN "prune" ELSE "export"
    /\ UNCHANGED <<proxy_vars, tasks, papers, requests,
                   paper_ids, connectivity, max_depth, world, staging, depth,
                   minimum_citations, staged_paper_list, staged_reference_list,
                   batched_papers, new_papers, selections, pre_accumulate, output>>

\* lines 163-184: one pass of the pruning loop
RECURSIVE FixedPoint(_, _)
FixedPoint(nodes, edges) ==
    LET kept == RetainPapers(nodes, edges)
        left == RetainReferences(kept, edges)
    IN  IF kept = nodes /\ left = edges
        THEN [nodes |-> nodes, edges |-> edges]
        ELSE FixedPoint(kept, left)

\* a pruner whose every pass repeats the two retain calls until nothing changes
PruneStepToFixedPoint ==
    /\ pc = "prune"
    /\ prev_graph' = [nodes |-> paper_list, edges |-> reference_list]
    /\ paper_list' = FixedPoint(paper_list, reference_list).nodes
    /\ reference_list' = FixedPoint(paper_list, reference_list).edges
    /\ pass' = pass + 1
    /\ pc' = IF pass + 1 < PrunePasses THEN "prune" ELSE "export"
    /\ UNCHANGED <<proxy_vars, tasks, papers, requests,
                   paper_ids, connectivity, max_depth, world, staging, depth,
                   minimum_citations, staged_paper_list, staged_reference_list,
                   batched_papers, new_papers, selections, pre_accumulate, output>>

PruneStep ==
    /\ pc = "prune"
    /\ prev_graph' = [nodes |-> paper_list, edges |-> reference_list]
    /\ paper_list' = RetainPapers(paper_list, reference_list)
    /\ reference_list' = RetainReferences(paper_list', reference_list)
    /\ pass' = pass + 1
    /\ pc' = IF pass + 1 < PrunePasses THEN "prune" ELSE "export"
    /\ UNCHANGED <<proxy_vars, tasks, papers, requests,
                   paper_ids, connectivity, max_depth, world, staging, depth,
                   minimum_citations, staged_paper_list, staged_reference_list,
                   batched_papers, new_papers, selections, pre_accumulate, output>>

\* lines 187-195: the node lines; expect("paper id") panics on a node without id
ExportStep ==
    /\ pc = "export"
    /\ IF \E p \in paper_list : p.id = NoId
       THEN pc' = "panic" /\ output' = output
       ELSE /\ pc' = "done"
            /\ output' = {[id |-> p.id, label |-> escape(p.title),
                           url |-> IF p.url = NoId THEN "" ELSE p.url] : p \in paper_list}
    /\ UNCHANGED <<proxy_vars, tasks, papers, requests,
                   paper_ids, connectivity, max_depth, world, staging, paper_list,
                   reference_list, depth, minimum_citations, staged_paper_list,
                   staged_reference_list, batched_papers, new_papers, selections,
                   pre_accumulate, pass, prev_graph>>

Next ==
    \/ SeedStep
    \/ SelectStep
    \/ FetchStep
    \/ AccumulateStep
    \/ CommitStep
    \/ PruneStep
    \/ ExportStep

Spec == Init /\ [][Next]_vars

\* ------------------------------------------------- the operations alone
\* The pruning loop on any graph: the stubs of the pool as nodes, any edges
\* between the three identifiers.
EdgePool == {[referencer |-> a, referencee |-> b] : a, b \in Ids}

InitPrune ==
    /\ pc = "prune"
    /\ paper_ids = <<>>
    /\ connectivity = 4
    /\ max_depth = 0
    /\ world = EmptyMap
    /\ staging = EmptyMap
    /\ paper_list \in SUBSET StubPool
    /\ reference_list \in SUBSET EdgePool
    /\ depth = 0
    /\ minimum_citations = 0
    /\ staged_paper_list = {}
    /\ staged_reference_list = {}
    /\ batched_papers = <<>>
    /\ new_papers = <<>>
    /\ selections = <<>>
    /\ pre_accumulate = EmptyMap
    /\ pass = 0
    /\ prev_graph = EmptyGraph
    /\ output = {}
    /\ requests = <<>>
    /\ tasks = <<>>
    /\ papers = <<>>
    /\ ProxyIdle

NextPrune == PruneStep \/ ExportStep

SpecPrune == InitPrune /\ [][NextPrune]_vars

\* Accumulate on any store: one or two papers (or none) come back from the
\* round's fetch, holding MaxFetchedRefs reference stubs at most between them,
\* and some of the upstream's papers are staged with a signal of 1..MaxSignal.
FetchedLists == {<<>>} \cup {<<a>> : a \in Ids} \cup {<<a, b>> : a, b \in Ids}

Unfetched(fetched) == [id \in Ids \ Range(fetched) |-> Paper(id, <<>>)]

InitAccumulate ==
    /\ pc = "accumulate"
    /\ paper_ids = <<>>
    /\ connectivity = 4
    /\ max_depth = 1
    /\ \E fetched \in FetchedLists :
           /\ batched_papers = fetched
           /\ world \in Extensions(Unfetched(fetched), Range(fetched), MaxFetchedRefs)
           /\ new_papers = GetPaperBatch(world, fetched)
    /\ \E staged \in SUBSET {id \in Ids : world[id] # Null} :
           \E signal \in [staged -> 1..MaxSignal] :
               staging = [id \in staged |->
                            [citation_count |-> signal[id], paper |-> world[id]]]
    /\ paper_list = {}
    /\ reference_list = {}
    /\ depth = 0
    /\ minimum_citations = 1
    /\ staged_paper_list = {}
    /\ staged_reference_list = {}
    /\ selections = <<>>
    /\ pre_accumulate = EmptyMap
    /\ pass = 0
    /\ prev_graph = EmptyGraph
    /\ output = {}
    /\ requests = <<>>
    /\ tasks = <<>>
    /\ papers = <<>>
    /\ ProxyIdle

SpecAccumulate == InitAccumulate /\ [][AccumulateStep]_vars

\* The threshold of every round, for every connectivity of 0.25 .. MaxConn / 4.
InitThreshold ==
    /\ pc = "threshold"
    /\ paper_ids = <<>>
    /\ connectivity \in 1..MaxConn
    /\ max_depth = MaxRound
    /\ world = EmptyMap
    /\ staging = EmptyMap
    /\ paper_list = {}
    /\ reference_list = {}
    /\ depth = 0
    /\ minimum_citations = MinimumCitations(connectivity, 0)
    /\ staged_paper_list = {}
    /\ staged_reference_list = {}
    /\ batched_papers = <<>>
    /\ new_papers = <<>>
    /\ selections = <<>>
    /\ pre_accumulate = EmptyMap
    /\ pass = 0
    /\ prev_graph = EmptyGraph
    /\ output = {}
    /\ requests = <<>>
    /\ tasks = <<>>
    /\ papers = <<>>
    /\ ProxyIdle

\* line 103 in the round after `depth`
ThresholdStep ==
    /\ pc = "threshold"
    /\ depth < max_depth
    /\ depth' = depth + 1
    /\ minimum_citations' = MinimumCitations(connectivity, depth')
    /\ UNCHANGED <<proxy_vars, tasks, papers, requests,
                   paper_ids, connectivity, max_depth, world, staging,
                   paper_list, reference_list, staged_paper_list,
                   staged_reference_list, batched_papers, new_papers, selections,
                   pre_accumulate, pass, prev_graph, output, pc>>

SpecThreshold == InitThreshold /\ [][ThresholdStep]_vars

\* The exporter on one node of any title of at most MaxStrLen characters out
\* of a letter, the quote and the backslash, and on the title of the test.
Chars == {"a", "\"", "\\"}

TestTitle ==
    <<"a", "s", "d", "f", " ", "\"", "f", "o", "o", "\"", " ", "\\", "a", "a", "a">>

Titles == UNION {[1..n -> Chars] : n \in 0..MaxStrLen} \cup {TestTitle}

InitEscape ==
    /\ pc = "export"
    /\ paper_ids = <<>>
    /\ connectivity = 4
    /\ max_depth = 0
    /\ world = EmptyMap
    /\ staging = EmptyMap
    /\ \E title \in Titles : paper_list = {ProtoPaper("P1", title, NoId)}
    /\ reference_list = {}
    /\ depth = 0
    /\ minimum_citations = 0
    /\ staged_paper_list = {}
    /\ staged_reference_list = {}
    /\ batched_papers = <<>>
    /\ new_papers = <<>>
    /\ selections = <<>>
    /\ pre_accumulate = EmptyMap
    /\ pass = PrunePasses
    /\ prev_graph = EmptyGraph
    /\ output = {}
    /\ requests = <<>>
    /\ tasks = <<>>
    /\ papers = <<>>
    /\ ProxyIdle

SpecEscape == InitEscape /\ [][ExportStep]_vars

\* a task whose request is in flight
Sending == [stage |-> "sending", status |-> 0, body |-> ""]

\* The spawning loop of get_paper_batch on any list of 0 .. MaxBatchInput
\* identifiers, here the numbers 1 .. n.
InitBatch ==
    /\ pc = "spawn"
    /\ paper_ids = <<>>
    /\ connectivity = 4
    /\ max_depth = 0
    /\ world = EmptyMap
    /\ staging = EmptyMap
    /\ paper_list = {}
    /\ reference_list = {}
    /\ depth = 0
    /\ minimum_citations = 0
    /\ staged_paper_list = {}
    /\ staged_reference_list = {}
    /\ \E n \in 0..MaxBatchInput : batched_papers = [i \in 1..n |-> i]
    /\ new_papers = <<>>
    /\ selections = <<>>
    /\ pre_accumulate = EmptyMap
    /\ pass = 0
    /\ prev_graph = EmptyGraph
    /\ output = {}
    /\ requests = <<>>
    /\ tasks = <<>>
    /\ papers = <<>>
    /\ ProxyIdle

\* semantic_scholar.rs lines 154-186: the early return on an empty list, else
\* one iteration of the loop that spawns the requests
SpawnStep ==
    /\ pc = "spawn"
    /\ IF batched_papers = <<>>
       THEN pc' = "returned" /\ requests' = requests /\ tasks' = tasks
       ELSE /\ requests' = Append(requests, SubBatch(batched_papers, Len(requests)))
            /\ tasks' = Append(tasks, Sending)
            /\ pc' = IF Len(requests) + 1 < NumBatches(Len(batched_papers))
                     THEN "spawn" ELSE "spawned"
    /\ UNCHANGED <<proxy_vars, papers,
                   paper_ids, connectivity, max_depth, world, staging, paper_list,
                   reference_list, depth, minimum_citations, staged_paper_list,
                   staged_reference_list, batched_papers, new_papers, selections,
                   pre_accumulate, pass, prev_graph, output>>

SpecBatch == InitBatch /\ [][SpawnStep]_vars

\* ------------------------------------------- one fetch, task by task
\* get_paper_batch with its tasks followed one by one.  A task goes through
\*   "sending"      the request is in flight (requests.spawn, line 179)
\*   "sent"         send() has resolved to a response with a status
\*   "send_failed"  send() has resolved to a transport error or the task failed
\*   "reading"      the response was joined, text() is in flight (line 189)
\*   "read"         text() has resolved to a body
\*   "read_failed"  text() has resolved to an error or the task failed
\*   "collected"    the body was joined, parsed and added to papers (line 199)
UnjoinedRequests == {"sending", "sent", "send_failed"}

UnjoinedResponses == {"reading", "read", "read_failed"}

Finished == {"sent", "send_failed", "read", "read_failed"}

FetchPhases == {"spawn", "spawned", "responses"}

\* the status codes the upstream may answer the proxy with
Statuses == {200, 404, 429, 500, 504}

\* the status codes a server may answer the client with
ServerStatuses == {200, 429, 500}

\* StatusClass::ClientError | StatusClass::ServerError
IsError(status) == status >= 400 /\ status < 600

\* The bodies a server may answer with: an array of nulls, an array whose
\* first element is a paper without references and whose other elements are
\* null, or a text that is no array of papers.
Bodies == {"nulls", "paper", "invalid"}

\* serde_json::from_str::<Vec<Option<Paper>>>(body), flattened
BodyPapers(body, ids) == IF body = "paper" THEN <<Paper(ids[1], <<>>)>> ELSE <<>>

\* a join_next that answers None when no task has finished yet
NoneFinished(ts, unjoined) ==
    ~\E i \in DOMAIN ts : ts[i].stage \in unjoined \cap Finished

\* join_next() answers None: the JoinSet holds no task
JoinSetEmpty(ts, unjoined) == ~\E i \in DOMAIN ts : ts[i].stage \in unjoined

\* the lengths of the round's list whose tasks are followed: none, one, one
\* more than a whole sub-batch, and 1 .. MaxSubBatches whole sub-batches
RoundSizes ==
    {0, 1, MAX_PAPERS_PER_BATCH_CALL + 1}
        \cup {k * MAX_PAPERS_PER_BATCH_CALL : k \in 1..MaxSubBatches}

\* Round 0 of a crawl after its selection: the seed paper 0 was selected and
\* removed, its reference stubs name the papers 1 .. n.
InitRound ==
    /\ pc = "fetch"
    /\ paper_ids = <<0>>
    /\ connectivity = 4
    /\ max_depth = 2
    /\ world = EmptyMap
    /\ staging = EmptyMap
    /\ paper_list = {ProtoPaper(0, PlainTitle, "u")}
    /\ reference_list = {}
    /\ depth = 0
    /\ minimum_citations = 1
    /\ \E n \in RoundSizes :
           /\ batched_papers = [i \in 1..n |-> i]
           /\ staged_paper_list = {ProtoPaper(i, PlainTitle, "u") : i \in 1..n}
           /\ staged_reference_list = {[referencer |-> 0, referencee |-> i] : i \in 1..n}
    /\ new_papers = <<>>
    /\ selections = <<{0}>>
    /\ pre_accumulate = EmptyMap
    /\ pass = 0
    /\ prev_graph = EmptyGraph
    /\ output = {}
    /\ requests = <<>>
    /\ tasks = <<>>
    /\ papers = <<>>
    /\ ProxyIdle

\* main.rs line 140: get_paper_batch is entered, its locals are fresh
CallStep ==
    /\ pc = "fetch"
    /\ pc' = "spawn"
    /\ requests' = <<>>
    /\ tasks' = <<>>
    /\ papers' = <<>>
    /\ UNCHANGED <<proxy_vars, paper_ids, connectivity, max_depth, world, staging,
                   paper_list, reference_list, depth, minimum_citations,
                   staged_paper_list, staged_reference_list, batched_papers,
                   new_papers, selections, pre_accumulate, pass, prev_graph, output>>

\* lines 154-157: Ok(vec![]) on an empty list
ReturnEmptyStep ==
    /\ pc = "returned"
    /\ new_papers' = <<>>
    /\ pc' = "accumulate"
    /\ UNCHANGED <<proxy_vars, tasks, papers, requests, paper_ids, connectivity,
                   max_depth, world, staging, paper_list, reference_list, depth,
                   minimum_citations, staged_paper_list, staged_reference_list,
                   batched_papers, selections, pre_accumulate, pass, prev_graph,
                   output>>

\* the server answers a request that is in flight, or the request fails
RespondStep ==
    /\ pc \in FetchPhases
    /\ \E i \in DOMAIN tasks :
           /\ tasks[i].stage = "sending"
           /\ \/ \E status \in ServerStatuses :
                     tasks' = [tasks EXCEPT ![i] = [@ EXCEPT !.stage = "sent",
                                                             !.status = status]]
              \/ tasks' = [tasks EXCEPT ![i].stage = "send_failed"]
    /\ UNCHANGED <<proxy_vars, pc, papers, requests, paper_ids, connectivity,
                   max_depth, world, staging, paper_list, reference_list, depth,
                   minimum_citations, staged_paper_list, staged_reference_list,
                   batched_papers, new_papers, selections, pre_accumulate, pass,
                   prev_graph, output>>

\* lines 188-195: one turn of the loop over requests.join_next()
JoinRequestsStep ==
    /\ pc = "spawned"
    /\ IF JoinSetEmpty(tasks, UnjoinedRequests)
       THEN pc' = "responses" /\ tasks' = tasks
       ELSE \E i \in DOMAIN tasks :
                \/ /\ tasks[i].stage = "sent"
                   /\ tasks' = [tasks EXCEPT ![i].stage = "reading"]
                   /\ pc' = pc
                \/ /\ tasks[i].stage = "send_failed"
                   /\ tasks' = tasks
                   /\ pc' = "error"
    /\ UNCHANGED <<proxy_vars, papers, requests, paper_ids, connectivity,
                   max_depth, world, staging, paper_list, reference_list, depth,
                   minimum_citations, staged_paper_list, staged_reference_list,
                   batched_papers, new_papers, selections, pre_accumulate, pass,
                   prev_graph, output>>

\* the body of a joined response arrives, or reading it fails
TextStep ==
    /\ pc \in FetchPhases
    /\ \E i \in DOMAIN tasks :
           /\ tasks[i].stage = "reading"
           /\ \/ \E body \in Bodies :
                     tasks' = [tasks EXCEPT ![i] = [@ EXCEPT !.stage = "read",
                                                             !.body = body]]
              \/ tasks' = [tasks EXCEPT ![i].stage = "read_failed"]
    /\ UNCHANGED <<proxy_vars, pc, papers, requests, paper_ids, connectivity,
                   max_depth, world, staging, paper_list, reference_list, depth,
                   minimum_citations, staged_paper_list, staged_reference_list,
                   batched_papers, new_papers, selections, pre_accumulate, pass,
                   prev_graph, output>>

\* lines 196-207: one turn of the loop over responses.join_next(), and Ok(papers)
JoinResponsesStep ==
    /\ pc = "responses"
    /\ IF JoinSetEmpty(tasks, UnjoinedResponses)
       THEN /\ new_papers' = papers
            /\ pc' = "accumulate"
            /\ UNCHANGED <<tasks, papers>>
       ELSE \E i \in DOMAIN tasks :
                \/ /\ tasks[i].stage = "read"
                   /\ tasks[i].body # "invalid"
                   /\ papers' = papers \o BodyPapers(tasks[i].body, requests[i])
                   /\ tasks' = [tasks EXCEPT ![i].stage = "collected"]
                   /\ UNCHANGED <<pc, new_papers>>
                \/ /\ \/ tasks[i].stage = "read_failed"
                      \/ tasks[i].stage = "read" /\ tasks[i].body = "invalid"
                   /\ pc' = "error"
                   /\ UNCHANGED <<tasks, papers, new_papers>>
    /\ UNCHANGED <<proxy_vars, requests, paper_ids, connectivity, max_depth, world,
                   staging, paper_list, reference_list, depth, minimum_citations,
                   staged_paper_list, staged_reference_list, batched_papers,
                   selections, pre_accumulate, pass, prev_graph, output>>

NextRound ==
    \/ CallStep
    \/ SpawnStep
    \/ ReturnEmptyStep
    \/ RespondStep
    \/ JoinRequestsStep
    \/ TextStep
    \/ JoinResponsesStep
    \/ AccumulateStep
    \/ CommitStep
    \/ SelectStep

SpecRound == InitRound /\ [][NextRound]_vars

\* ------------------------------------------------- the rate-limiting proxy
\* The proxy with MaxInbound inbound requests, over MaxClock rate-limit
\* periods.  A handler is "absent" until its request arrives, then at
\* "acquire" (line 84), "forward" (line 89, the request to the upstream is
\* about to be sent), "await" (the upstream's answer is awaited) or "done".
client_vars ==
    <<pc, paper_ids, connectivity, max_depth, world, staging, paper_list,
      reference_list, depth, minimum_citations, staged_paper_list,
      staged_reference_list, batched_papers, new_papers, selections,
      pre_accumulate, pass, prev_graph, output, requests, tasks, papers>>

InitProxy ==
    /\ pc = "serve"
    /\ paper_ids = <<>>
    /\ connectivity = 4
    /\ max_depth = 0
    /\ world = EmptyMap
    /\ Idle

\* an inbound POST is routed to paper_batch
ArriveStep(h) ==
    /\ handlers[h].pc = "absent"
    /\ handlers' = [handlers EXCEPT ![h].pc = "acquire"]
    /\ UNCHANGED <<client_vars, clock, limiter, upstream>>

\* a rate-limit period passes: the limiter gains a token, up to max(RATE_LIMIT_COUNT)
TickStep ==
    /\ clock < MaxClock
    /\ clock' = clock + 1
    /\ limiter' = [limiter EXCEPT !.balance = Min(@ + 1, RATE_LIMIT_COUNT)]
    /\ UNCHANGED <<client_vars, handlers, upstream>>

\* line 84: limiter.acquire_one().await, then lines 85-88
AcquireStep(h) ==
    /\ handlers[h].pc = "acquire"
    /\ limiter.balance >= 1
    /\ limiter' = [balance |-> limiter.balance - 1, acquired |-> limiter.acquired + 1]
    /\ handlers' = [handlers EXCEPT ![h] = [@ EXCEPT !.pc = "forward", !.tries = 0]]
    /\ UNCHANGED <<client_vars, clock, upstream>>

\* lines 56-62: s2_response sends the request to the upstream
ForwardStep(h) ==
    /\ handlers[h].pc = "forward"
    /\ upstream' = [sent |-> upstream.sent + 1]
    /\ handlers' = [handlers EXCEPT ![h] = [@ EXCEPT !.pc = "await", !.sent = @ + 1]]
    /\ UNCHANGED <<client_vars, clock, limiter>>

\* a retry loop that tests `tries <= max_tries`
AfterTooManyRequestsOnceMore(tries) ==
    IF tries <= max_tries
    THEN [pc |-> "forward", tries |-> tries, result |-> 0]
    ELSE [pc |-> "done", tries |-> tries, result |-> 504]

\* the status the handler answers with after `tries` answers of 429
AfterTooManyRequests(tries) ==
    IF tries < max_tries
    THEN [pc |-> "forward", tries |-> tries, result |-> 0]
    ELSE [pc |-> "done", tries |-> tries, result |-> 504]

\* lines 89-111: the outcome of s2_response is matched
AnswerStep(h) ==
    /\ handlers[h].pc = "await"
    /\ \/ handlers' = [handlers EXCEPT ![h] =
              [@ EXCEPT !.pc = "done", !.result = 500, !.outcome = "error", !.status = 0]]
       \/ \E status \in Statuses :
              LET after == AfterTooManyRequests(handlers[h].tries + 1)
                  answered == [handlers[h] EXCEPT !.outcome = "status", !.status = status]
              IN  handlers' = [handlers EXCEPT ![h] =
                      IF status = 429
                      THEN [answered EXCEPT !.pc = after.pc, !.tries = after.tries,
                                            !.result = after.result]
                      ELSE IF IsError(status)
                      THEN [answered EXCEPT !.pc = "done", !.result = status]
                      ELSE [answered EXCEPT !.pc = "done", !.result = 200]]
    /\ UNCHANGED <<client_vars, clock, limiter, upstream>>

NextProxy ==
    \/ TickStep
    \/ \E h \in Handlers : ArriveStep(h)
    \/ \E h \in Handlers : AcquireStep(h)
    \/ \E h \in Handlers : ForwardStep(h)
    \/ \E h \in Handlers : AnswerStep(h)

SpecProxy == InitProxy /\ [][NextProxy]_vars

\* ------------------------------------------------------------- the claims
\* C1: once an id has been selected for expansion in a round, no later round
\* of the same crawl selects it again.
OneShotExpansion ==
    \A r, r2 \in 1..Len(selections) :
        r < r2 => selections[r] \cap selections[r2] = {}

\* The single-seed scenario: the seed batch is P1, whose references are a stub
\* of R1 and a stub of R2, and R1 and R2, once fetched, are papers without
\* references.
ScenarioOne ==
    /\ paper_ids = <<"P1">>
    /\ "P1" \in DOMAIN world
    /\ world["P1"] # Null
    /\ Len(world["P1"].references) = 2
    /\ world["P1"].references[1].id = "R1"
    /\ world["P1"].references[2].id = "R2"
    /\ \A r \in {"R1", "R2"} : r \in DOMAIN world => world[r] = Paper(r, <<>>)

ScenarioEdges ==
    {[referencer |-> "P1", referencee |-> "R1"], [referencer |-> "P1", referencee |-> "R2"]}

\* C6: in the single-seed scenario round 0 selects P1 and commits the edges
\* P1->R1 and P1->R2 and the nodes R1 and R2, and the graph that is emitted
\* after the pruning passes has no nodes and no edges.
ScenarioOneGraph ==
    (ScenarioOne /\ max_depth >= 1) =>
        /\ Len(selections) >= 1 => selections[1] = {"P1"}
        /\ (depth >= 1 /\ pass = 0) =>
               /\ reference_list = ScenarioEdges
               /\ Range(world["P1"].references) \subseteq paper_list
        /\ pc \in {"export", "done"} => paper_list = {} /\ reference_list = {}
        /\ pc = "done" => output = {}

ScenarioOneEmitted ==
    /\ ScenarioOne
    /\ max_depth >= 1
    /\ pc = "done"
    /\ selections[1] = {"P1"}
    /\ {"R1", "R2"} \subseteq DOMAIN world
    /\ paper_list = {}
    /\ reference_list = {}

\* C7: in the single-seed scenario P1 is at no point of the crawl an element
\* of the committed node set.
SeedNeverCommitted == ScenarioOne => \A p \in paper_list : p.id # "P1"

\* C7 as amended: in the single-seed scenario the stub of P1 is in the
\* committed node set from the seeding to the end of the crawl, and no node
\* of the emitted graph names P1.
SeedCommittedUntilPruned ==
    ScenarioOne =>
        /\ (pc \in {"select", "fetch", "accumulate", "commit"} \/ (pc = "prune" /\ pass = 0))
               => FromPaper(world["P1"]) \in paper_list
        /\ pc \in {"export", "done"} => \A p \in paper_list : p.id # "P1"

SeedCommittedInRound ==
    /\ ScenarioOne
    /\ pc = "commit"
    /\ selections[1] = {"P1"}
    /\ FromPaper(world["P1"]) \in paper_list
    /\ "P1" \notin DOMAIN staging

NamesOf(records, id) ==
    Cardinality({ij \in UNION {{<<i, j>> : j \in 1..Len(records[i].references)} :
                                  i \in 1..Len(records)} :
                     records[ij[1]].references[ij[2]].id = id})

\* C3: Accumulate raises the signal of every entry that was live before it by
\* the number of reference stubs of the fetched records that name its id, and
\* leaves an entry that none of them names as it was.
AccumulateCountsOccurrences ==
    pc = "commit" =>
        \A a \in DOMAIN pre_accumulate :
            /\ a \in DOMAIN staging
            /\ staging[a].citation_count =
                   pre_accumulate[a].citation_count + NamesOf(new_papers, a)
            /\ NamesOf(new_papers, a) = 0 => staging[a] = pre_accumulate[a]

NamedTwiceInTwoRecords ==
    /\ pc = "commit"
    /\ Len(new_papers) = 2
    /\ \E a, b \in DOMAIN pre_accumulate :
           /\ a # b
           /\ NamesOf(<<new_papers[1]>>, a) = 1
           /\ NamesOf(<<new_papers[2]>>, a) = 1
           /\ NamesOf(new_papers, b) = 0
           /\ pre_accumulate[a].citation_count = 2
           /\ staging[a].citation_count = 4
           /\ staging[b] = pre_accumulate[b]

\* C4: the node set and the edge set after a pruning pass are subsets of the
\* sets before it, so neither size grows.
PrunerMonotone ==
    pass >= 1 =>
        /\ paper_list \subseteq prev_graph.nodes
        /\ reference_list \subseteq prev_graph.edges
        /\ Cardinality(paper_list) <= Cardinality(prev_graph.nodes)
        /\ Cardinality(reference_list) <= Cardinality(prev_graph.edges)

SecondPassShrinks ==
    /\ pass = 2
    /\ paper_list # prev_graph.nodes
    /\ reference_list # prev_graph.edges
    /\ paper_list # {}

\* C5: a pruning pass that follows a pass which changed neither set changes
\* neither set.
StableStaysStable ==
    [][(pass >= 1 /\ prev_graph.nodes = paper_list /\ prev_graph.edges = reference_list)
           => (paper_list' = paper_list /\ reference_list' = reference_list)]_vars

StableGraphPassedAgain ==
    /\ pass >= 2
    /\ prev_graph.nodes = paper_list
    /\ prev_graph.edges = reference_list
    /\ paper_list # {}
    /\ reference_list # {}

\* C8: the threshold of round `depth` is floor(c^depth), it is 1 in round 0,
\* and for c > 1 it is not above the threshold of the next round.
ThresholdIsFloorPower ==
    pc = "threshold" =>
        /\ minimum_citations = FloorPower(connectivity, depth)
        /\ depth = 0 => minimum_citations = 1
        /\ (connectivity > 4 /\ depth < max_depth)
               => minimum_citations <= MinimumCitations(connectivity, depth + 1)

\* what escape is to do with one character
EscapedChar(c) ==
    IF c = "\\" THEN <<"\\", "\\">> ELSE IF c = "\"" THEN <<"\\", "\"">> ELSE <<c>>

\* C9: the label of a node is its title with every backslash doubled and
\* every quote preceded by one backslash, the other characters as they were.
EscapeCharwise ==
    pc = "done" =>
        \A p \in paper_list :
            \E line \in output :
                /\ line.id = p.id
                /\ line.label = Concat([i \in 1..Len(p.title) |-> EscapedChar(p.title[i])])

EscapedTestTitle ==
    /\ pc = "done"
    /\ paper_list = {ProtoPaper("P1", TestTitle, NoId)}
    /\ \E line \in output :
           line.label = <<"a", "s", "d", "f", " ", "\\", "\"", "f", "o", "o", "\\", "\"",
                          " ", "\\", "\\", "a", "a", "a">>

\* C10: every sub-batch holds at most MAX_PAPERS_PER_BATCH_CALL identifiers
\* and every identifier of the list is in exactly one sub-batch.
EveryIdInOneSubBatch ==
    pc = "spawned" =>
        /\ \A i \in 1..Len(requests) : Len(requests[i]) <= MAX_PAPERS_PER_BATCH_CALL
        /\ Len(Concat(requests)) = Len(batched_papers)
        /\ Range(Concat(requests)) = Range(batched_papers)

\* the number of requests that carried the sub-batch of task i
Attempts(i) ==
    Cardinality({j \in DOMAIN requests : requests[j] = SubBatch(batched_papers, i - 1)})

\* C11: when get_paper_batch has returned, every sub-batch whose request was
\* answered 429 had been sent again, and no response of the 4xx/5xx class
\* was taken as a result.
TooManyRequestsRetried ==
    /\ pc \in {"accumulate", "error"} =>
           \A i \in DOMAIN tasks : tasks[i].status = 429 => Attempts(i) >= 2
    /\ pc = "accumulate" =>
           \A i \in DOMAIN tasks : ~IsError(tasks[i].status)

\* C12: every request sent to the upstream was preceded by its own
\* acquisition of a limiter token: the upstream has never been sent more
\* requests than tokens were acquired.
EveryForwardHasItsToken == upstream.sent <= limiter.acquired

\* C13: a handler answers with the gateway-timeout status only after
\* max_tries answers of 429 from the upstream.
GatewayTimeoutMeansExhausted ==
    \A h \in Handlers :
        (handlers[h].pc = "done" /\ handlers[h].result = 504)
            => handlers[h].tries = max_tries

\* every sub-batch the call issued has a task, every task's body was joined,
\* and the call's result holds the records of every body
RoundCollected ==
    /\ Len(tasks) = Len(Requests(batched_papers))
    /\ \A i \in DOMAIN tasks : tasks[i].stage = "collected"
    /\ {new_papers[k].id : k \in DOMAIN new_papers}
           = {requests[i][1] : i \in {j \in DOMAIN tasks : tasks[j].body = "paper"}}
    /\ Len(new_papers) = Cardinality({j \in DOMAIN tasks : tasks[j].body = "paper"})

\* C14: Accumulate, Commit and the next round's Select run only when every
\* sub-batch fetch the round issued has completed and its records are in the
\* round's result, and no step taken while the fetch is in progress changes
\* the staging store or the committed sets.
RoundBarrier ==
    /\ [](pc \in {"accumulate", "commit", "select"} => RoundCollected)
    /\ [][(pc \in FetchPhases \cup {"fetch", "returned"}) =>
              (staging' = staging /\ paper_list' = paper_list
                   /\ reference_list' = reference_list)]_vars

SecondSubBatchCollectedFirst ==
    /\ pc = "accumulate"
    /\ depth = 0
    /\ Len(tasks) = 2
    /\ Len(new_papers) = 2
    /\ new_papers[1].id = requests[2][1]
    /\ new_papers[2].id = requests[1][1]
    /\ staging = EmptyMap

\* C15: the step in which a fetch fails leaves the committed node and edge
\* sets as they were at the start of the round, with no pruning pass done and
\* nothing emitted, and no step follows it: no later round, no pruning, no
\* export.
FetchFailureAborts ==
    [][/\ (pc' = "error") =>
              (paper_list' = paper_list /\ reference_list' = reference_list
                   /\ depth' = depth /\ pass' = 0 /\ output' = {})
       /\ pc # "error"]_vars

FetchFailedInSecondRound ==
    /\ pc = "error"
    /\ depth = 1
    /\ Len(selections) = 2
    /\ reference_list # {}
    /\ staged_reference_list # {}
    /\ staged_reference_list \cap reference_list = {}
    /\ staged_paper_list \cap paper_list = {}
    /\ pass = 0
    /\ output = {}

\* C16: with an empty seed list no request is ever issued, the run never
\* fails, every round selects, fetches and stages nothing, and the committed
\* sets and the emitted graph are empty.
EmptySeedEmptyGraph ==
    paper_ids = <<>> =>
        /\ pc \notin {"error", "panic"}
        /\ requests = <<>>
        /\ world = EmptyMap
        /\ staging = EmptyMap
        /\ \A r \in DOMAIN selections : selections[r] = {}
        /\ batched_papers = <<>>
        /\ new_papers = <<>>
        /\ staged_paper_list = {}
        /\ staged_reference_list = {}
        /\ paper_list = {}
        /\ reference_list = {}
        /\ output = {}

EmptySeedRunDone ==
    /\ paper_ids = <<>>
    /\ pc = "done"
    /\ max_depth >= 2
    /\ Len(selections) = max_depth
    /\ pass = PrunePasses
    /\ requests = <<>>
    /\ paper_list = {}
    /\ reference_list = {}

\* C17: no step of the seeding or of a round removes an element of the
\* committed node set or of the committed edge set, and no pruning pass, nor
\* the export, adds one.
CrawlGrowsPruneShrinks ==
    [][/\ (pc \in {"seed", "select", "fetch", "accumulate", "commit"}) =>
              (paper_list \subseteq paper_list' /\ reference_list \subseteq reference_list')
       /\ (pc \in {"prune", "export"}) =>
              (paper_list' \subseteq paper_list /\ reference_list' \subseteq reference_list)]_vars

GrewInBothRounds ==
    /\ pc = "prune"
    /\ pass = 0
    /\ depth = 2
    /\ \E e \in reference_list : e.referencer = "P1" /\ e.referencee = "R1"
    /\ \E e \in reference_list : e.referencer = "R1" /\ e.referencee = "R2"
    /\ \E p \in paper_list : p.id = "P1"
    /\ \E p \in paper_list : p.id = "R2"

SelectRemovesExactly ==
    [][(pc = "select") =>
           /\ minimum_citations' = MinimumCitations(connectivity, depth)
           /\ DOMAIN staging' =
                  {id \in DOMAIN staging : staging[id].citation_count < minimum_citations'}
           /\ selections'[Len(selections')] =
                  {id \in DOMAIN staging : staging[id].citation_count >= minimum_citations'}
           /\ \A id \in DOMAIN staging' :
                  /\ staging'[id] = staging[id]
                  /\ staging'[id].citation_count < minimum_citations']_vars

SelectedOneLeftOne ==
    /\ pc = "fetch"
    /\ depth = 1
    /\ minimum_citations = 3
    /\ selections[2] = {"R1"}
    /\ DOMAIN staging = {"P1"}
    /\ staging["P1"].citation_count = 2

\* C20: with N and E the node and edge sets at the start of a pass, the nodes
\* after it are the n of N with more than one edge of E ending at n.id or
\* more than one edge of E starting at n.id, the edges after it are the
\* edges of E whose start and whose end are each the id of a node after it,
\* and so every edge after a pass joins two nodes that are left.
PassIsThreeStepRule ==
    pass >= 1 =>
        LET N == prev_graph.nodes
            E == prev_graph.edges
            surviving ==
                {n \in N : ~(Cardinality({e \in E : e.referencee = n.id}) <= 1
                             /\ Cardinality({e \in E : e.referencer = n.id}) <= 1)}
            surviving_ids == {n.id : n \in surviving}
        IN  /\ paper_list = surviving
            /\ reference_list =
                   {e \in E : e.referencer \in surviving_ids /\ e.referencee \in surviving_ids}
            /\ \A e \in reference_list :
                   /\ \E n \in paper_list : n.id = e.referencer
                   /\ \E n \in paper_list : n.id = e.referencee

FirstPassCutsNodesAndEdges ==
    /\ pass = 1
    /\ paper_list # {}
    /\ reference_list # {}
    /\ paper_list # prev_graph.nodes
    /\ reference_list # prev_graph.edges
    /\ \E e \in prev_graph.edges \ reference_list :
           \E n \in paper_list : n.id = e.referencer
    /\ \E n \in prev_graph.nodes \ paper_list : n.id # NoId

(***************************************************************************)
(* The pruning loop on a long chain: the pre-pruning graph of a crawl      *)
(* whose n seed papers cite their neighbours in a row, both ways.          *)
(***************************************************************************)
MaxChain == 22

ChainId(i) == ToString(i)

ChainNodes(lo, hi) == {ProtoPaper(ChainId(i), PlainTitle, ChainId(i)) : i \in lo..hi}

ChainEdges(lo, hi) ==
    {[referencer |-> ChainId(i), referencee |-> ChainId(j)] :
        <<i, j>> \in {ij \in (lo..hi) \X (lo..hi) :
                         ij[1] - ij[2] = 1 \/ ij[2] - ij[1] = 1}}

InitChain ==
    /\ pc = "prune"
    /\ \E n \in 1..MaxChain :
           /\ paper_ids = [i \in 1..n |-> ChainId(i)]
           /\ paper_list = ChainNodes(1, n)
           /\ reference_list = ChainEdges(1, n)
    /\ connectivity = 4
    /\ max_depth = 1
    /\ world = EmptyMap
    /\ staging = EmptyMap
    /\ depth = 1
    /\ minimum_citations = 1
    /\ staged_paper_list = {}
    /\ staged_reference_list = {}
    /\ batched_papers = <<>>
    /\ new_papers = <<>>
    /\ selections = <<>>
    /\ pre_accumulate = EmptyMap
    /\ pass = 0
    /\ prev_graph = EmptyGraph
    /\ output = {}
    /\ requests = <<>>
    /\ tasks = <<>>
    /\ papers = <<>>
    /\ ProxyIdle

SpecChain == InitChain /\ [][NextPrune]_vars

\* C22: ten passes are a bound, not a fixed point: each pass takes only the
\* two end nodes (and their edges) off a chain whose neighbours cite each
\* other both ways, so a chain of more than twenty nodes is, after the
\* tenth pass, a graph that one more pass would still change.
TenPassesLeaveLongChain ==
    (pc \in {"prune", "export"}) =>
        LET n == Len(paper_ids)
        IN  /\ paper_list = ChainNodes(pass + 1, n - pass)
            /\ reference_list = ChainEdges(pass + 1, n - pass)
            /\ (pc = "export" /\ n > 2 * PrunePasses) =>
                   RetainPapers(paper_list, reference_list) # paper_list

EleventhPassWouldChange ==
    /\ pc = "done"
    /\ pass = PrunePasses
    /\ paper_list # {}
    /\ RetainPapers(paper_list, reference_list) # paper_list

\* every id that some round has selected
EverSelected == UNION {selections[r] : r \in DOMAIN selections}

\* C21: when the crawl ends, the committed nodes are the stubs of the seed
\* batch's records and the reference stubs with an id of every entry that
\* some round selected, and the committed edges are the pairs (selected id,
\* reference id) over those references; the stub of a paper expanded in a
\* later round is a node only if it is one of these.
CommittedIsSeedAndReferences ==
    (pc = "prune" /\ pass = 0) =>
        LET seeds == {id \in Range(paper_ids) : world[id] # Null}
            stubs(id) == {s \in Range(world[id].references) : s.id # NoId}
        IN  /\ paper_list =
                   {FromPaper(world[id]) : id \in seeds}
                       \cup UNION {stubs(id) : id \in EverSelected}
            /\ reference_list =
                   UNION {{[referencer |-> id, referencee |-> s.id] : s \in stubs(id)} :
                              id \in EverSelected}

ExpandedPaperIsNoNode ==
    /\ pc = "prune"
    /\ pass = 0
    /\ depth = 2
    /\ selections[1] = {"P1"}
    /\ selections[2] = {"R1"}
    /\ FromPaper(world["R1"]) \notin paper_list
    /\ \E e \in reference_list : e.referencer = "R1" /\ e.referencee = "R2"
    /\ \E p \in paper_list : p.id = "R1"


\* the fetched papers whose reference list names id
Citers(id) ==
    {y \in DOMAIN world : world[y] # Null /\ NamesOf(<<world[y]>>, id) > 0}

\* C23: the signal of a live entry never exceeds one plus the number of
\* distinct papers fetched so far whose reference list names it, also when
\* a round's fetch asks for the same id, and so gets the same paper, more
\* than once.
SignalNeverOvercounts ==
    \A id \in DOMAIN staging :
        staging[id].citation_count <= 1 + Cardinality(Citers(id))


(***************************************************************************)
(* The crawl of one seed with a connectivity above 1 and one round more    *)
(* than Spec runs, so that two rounds select with a threshold above 1.     *)
(***************************************************************************)
InitStarve ==
    /\ pc = "seed"
    /\ paper_ids = <<"P1">>
    /\ connectivity \in {c \in Connectivities : c > 4}
    /\ max_depth = MaxDepth + 1
    /\ world = EmptyMap
    /\ Idle

SpecStarve == InitStarve /\ [][Next]_vars

\* C24: with a connectivity above 1, an entry whose signal is below the
\* threshold of a round stays in the store through that round unchanged, a
\* signal below the last round's threshold is below this round's too, and
\* between selections the signal of an entry that no fetched record names
\* does not change: an entry left unselected and named no more is never
\* selected and ends the crawl in the store with the signal it had.
Starvation ==
    [][(connectivity > 4) =>
          ((pc = "select" =>
               \A id \in DOMAIN staging :
                   (\/ staging[id].citation_count < minimum_citations'
                    \/ (depth > 0 /\ staging[id].citation_count < minimum_citations))
                       => (/\ id \in DOMAIN staging'
                           /\ staging'[id] = staging[id]
                           /\ id \notin selections'[Len(selections')]))
           /\ (pc = "accumulate" =>
                  \A id \in DOMAIN staging :
                      NamesOf(new_papers, id) = 0
                          => (/\ id \in DOMAIN staging'
                              /\ staging'[id].citation_count = staging[id].citation_count))
           /\ (pc \in {"fetch", "commit", "prune", "export"} => staging' = staging))]_vars

StarvedToTheEnd ==
    /\ pc = "done"
    /\ connectivity > 4
    /\ Len(selections) = 3
    /\ selections[2] = {"R1"}
    /\ world["R1"].references # <<>>
    /\ "R2" \notin EverSelected
    /\ "R2" \in DOMAIN staging
    /\ staging["R2"].citation_count = 1
    /\ NamesOf(<<world["R1"]>>, "R2") = 0


\* what a handler has answered, from the last outcome of s2_response
Answer(r) ==
    IF r.outcome = "error" THEN 500
    ELSE IF r.status = 429 THEN 504
    ELSE IF IsError(r.status) THEN r.status
    ELSE 200

HandlerWithinTries(h) ==
    LET r == handlers[h]
    IN  /\ r.sent <= max_tries
        /\ (r.pc = "forward") =>
               (/\ r.sent < max_tries
                /\ r.tries = r.sent
                /\ (r.sent > 0 => (r.outcome = "status" /\ r.status = 429))
                /\ ENABLED ForwardStep(h))
        /\ (r.pc = "done") =>
               (/\ r.sent >= 1
                /\ r.result = Answer(r)
                /\ (r.outcome = "status" /\ r.status = 429) => r.sent = max_tries)

EveryCommittedNodeHasId ==
    /\ \A p \in paper_list : p.id # NoId
    /\ pc # "panic"

ExportedAfterIdlessReference ==
    /\ pc = "done"
    /\ \E id \in EverSelected :
           /\ \E s \in Range(world[id].references) : s.id = NoId
           /\ \E s \in Range(world[id].references) : s.id # NoId


\* the orders in which the records of a fetch can reach the crawler
CompletionOrders(records) ==
    {[i \in 1..Len(records) |-> records[order[i]]] :
        order \in Permutations_(1..Len(records))}

\* C27: the outcome of a round does not depend on the order in which the
\* responses of its fetch complete: the store after accumulate is the one
\* that every order of the fetched records gives, and the sets the round
\* commits are fixed before the fetch and added as they are.
CompletionOrderIrrelevant ==
    /\ [](pc = "commit" =>
             \A records \in CompletionOrders(new_papers) :
                 Increment(StagingExtend(pre_accumulate, records),
                           ReferenceIncrements(records)) = staging)
    /\ [][/\ (pc \in {"fetch", "accumulate"}) =>
                 UNCHANGED <<staged_paper_list, staged_reference_list,
                             paper_list, reference_list>>
          /\ (pc = "commit") =>
                 (/\ paper_list' = paper_list \cup staged_paper_list
                  /\ reference_list' = reference_list \cup staged_reference_list
                  /\ staging' = staging)]_vars

TwoRecordsNameLiveEntries ==
    /\ pc = "commit"
    /\ Len(new_papers) = 2
    /\ new_papers[1] # new_papers[2]
    /\ \E i \in 1..2 : \E s \in Range(new_papers[i].references) : s.id = NoId
    /\ \E id \in DOMAIN staging : staging[id].citation_count > 1
    /\ staged_paper_list # {}

=============================================================================
